---- MODULE Spec2Model ----
(***************************************************************************)
(* World2Discrete (worldoptim/environments/gym_envs/world2_discrete.py):   *)
(* the discrete-time environment wrapped around the World2 dynamical       *)
(* model.  One environment instance, one sequential caller.                *)
(*                                                                         *)
(* Conventions.                                                            *)
(*  - Python lists are sequences; positions are 1-based here (label_to_id  *)
(*    and list.index are 0-based in the source).                           *)
(*  - Floating point quantities are fixed-point integers in hundredths     *)
(*    (Scale): 0.25 is 25, 0.05 is 5; a product of two of them is divided  *)
(*    by Scale and truncated.                                              *)
(*  - None is the empty sequence <<>> for env_state / previous_env_state   *)
(*    (a real state vector has at least nb_costs entries).                 *)
(*  - reset() is a loop over step(); its position is `phase`/`warmup_left`.*)
(*    While phase = "warmup" the only enabled operation is the next        *)
(*    iteration of the loop (or the return when the loop is exhausted).    *)
(***************************************************************************)
EXTENDS Integers, Sequences, FiniteSets

\* ------------------------------------------------------------------ bounds
MaxHorizon == 2
MaxStart == 1
MaxRes == 2
MaxAgentSteps == 2

\* ------------------------------------------------------- program constants
dim_action == 5
nb_costs == 2
NRUN_time == 70
NRUN_value == 25
Scale == 100
default_percentage_shift == 5
StateMod == 4

VARIABLES
    \* constructor arguments (fixed after construction)
    simulation_horizon, time_action_start, time_resolution, percentage_shift,
    model, cost_function,
    \* environment fields
    reset_same, t, jump_of, cumulative_costs, model_state,
    env_state, env_state_labelled, previous_env_state, previous_env_state_labelled,
    history,
    \* fields of the model collaborator
    current_internal_params, model_config, model_reset_kind,
    \* position of the caller / of the loop inside reset(), last call's outcome
    phase, warmup_left, ret

cfgvars == <<simulation_horizon, time_action_start, time_resolution, percentage_shift,
             model, cost_function>>
envvars == <<reset_same, t, jump_of, cumulative_costs, model_state,
             env_state, env_state_labelled, previous_env_state, previous_env_state_labelled,
             history>>
modelvars == <<current_internal_params, model_config, model_reset_kind>>
vars == <<cfgvars, envvars, modelvars, phase, warmup_left, ret>>

\* ------------------------------------------------------------ list helpers
Min(a, b) == IF a <= b THEN a ELSE b
Max(a, b) == IF a >= b THEN a ELSE b

Range(s) == {s[i] : i \in DOMAIN s}

\* Repeat that gives one copy whatever the count
RepeatOnce(x, n) == <<x>>

\* [x] * n
Repeat(x, n) == [i \in 1..Max(n, 0) |-> x]

\* list(range(a, b))
PyRange(a, b) == [i \in 1..Max(b - a, 0) |-> a + i - 1]

\* list.index(k): first position of k, 0 when k is absent (ValueError)
Index(s, k) == IF k \in Range(s)
               THEN CHOOSE i \in DOMAIN s : s[i] = k /\ \A j \in 1..(i - 1) : s[j] # k
               ELSE 0

\* number of occurrences of x in list s
Count(s, x) == Cardinality({i \in DOMAIN s : s[i] = x})

\* sorted(list(d.keys())) == sorted(labels), for a dict with key set keys
SortedKeysEqual(keys, labels) ==
    /\ keys = Range(labels)
    /\ \A x \in Range(labels) : Count(labels, x) = 1

\* np.clip(x, lo, hi)
Clip(x, lo, hi) == Min(Max(x, lo), hi)

\* --------------------------------------------------- the model collaborator
Models == {"world2", "duplicate_label", "missing_label"}

\* raw model state: the world variables, then the current values of the
\* control variables
internal_states_labels(m) == <<"P", "POLR", "CI", "QL", "NR", "DR", "BRN", "DRN">>

state_labels_for_agent(m) ==
    CASE m = "world2" -> <<"DR", "QL", "P", "BRN", "DRN">>
      [] m = "duplicate_label" -> <<"DR", "DR">>
      [] m = "missing_label" -> <<"DR", "XX">>

control_variables(m) == <<"BRN", "DRN">>

control_variables_ranges(m) == <<<<100, 105>>, <<95, 100>>>>

ParamNames == {"BRN", "DRN", "NRUN"}

InitParams == [p \in ParamNames |-> Scale]

ModelConfigs == {1, 2}

\* model._get_current_state() right after model.reset()/reset_same_model()
InitModelState(c) == <<c, 0, 1, 1, 2, 0, Scale, Scale>>

\* model.run_n_steps(state, 1)[-1]
run_n_steps(m, state, params) ==
    [j \in DOMAIN state |->
        IF internal_states_labels(m)[j] \in Range(control_variables(m))
        THEN params[internal_states_labels(m)[j]]
        ELSE (state[j] + j + (params["BRN"] + params["DRN"] + params["NRUN"]) \div Scale)
                % StateMod]

\* model.stocks, model.rates: the labels get_data() plots as stocks and rates
stocks(m) == <<"P">>

rates(m) == <<"DR">>

\* model.year_min
year_min == 1900

\* ------------------------------------------------- the cost function object
CostFunctions == {"float_aggregate", "numpy_aggregate"}

CumLabel(i) == IF i = 0 THEN "cumulative_cost_0" ELSE "cumulative_cost_1"

\* self.state_labels
state_labels(m) == state_labels_for_agent(m) \o [i \in 1..nb_costs |-> CumLabel(i - 1)]

\* self.label_to_id
label_to_id(m, k) == Index(state_labels(m), k)

\* c.compute_cost(previous_state, state, label_to_id, action, others)[0]
\* of the i-th elementary cost (i = 1..nb_costs)
compute_cost(m, i, previous_state, state, action, jump) ==
    IF i = 1
    THEN state[label_to_id(m, "DR")] * jump
    ELSE Max(previous_state[label_to_id(m, "QL")] - state[label_to_id(m, "QL")], 0) + 1

\* cost_function.compute_cost(...)[0]: the aggregated cost
compute_aggregated_cost(m, previous_state, state, action, jump) ==
    compute_cost(m, 1, previous_state, state, action, jump)
    + compute_cost(m, 2, previous_state, state, action, jump)

\* ------------------------------------------------------------------ actions
neutral == [i \in 1..dim_action |-> 0]

\* actions the optimizer passes to step(): one that moves both control
\* variables and one with a component outside {-1, 0, 1}; the neutral action
\* is the one the warm-up loop replays
Actions == { <<1, -1, 0, 0, 1>>,
             <<2, 0, 0, 0, 0>> }

\* actions update_with_action is called with
UpdateActions == Actions \cup {neutral}

ValidAction(a) == \A i \in DOMAIN a : a[i] \in {-1, 0, 1}


\* --------------------------------------------------- state update helpers
None == <<>>

\* the dict built by the two loops of _update_env_state, up to (excluding)
\* the first model label that internal_states_labels does not contain
LabelledState(m, ms, cum) ==
    LET agent == state_labels_for_agent(m)
        internal == internal_states_labels(m)
        bad == {i \in DOMAIN agent : Index(internal, agent[i]) = 0}
        stop == IF bad = {} THEN Len(agent) + 1
                ELSE CHOOSE i \in bad : \A j \in bad : i <= j
        modelKeys == {agent[i] : i \in 1..(stop - 1)}
        costKeys == IF bad = {} THEN {CumLabel(i) : i \in 0..(nb_costs - 1)} ELSE {}
    IN  [k \in modelKeys \cup costKeys |->
            IF k \in costKeys
            THEN cum[(CHOOSE i \in 0..(nb_costs - 1) : CumLabel(i) = k) + 1]
            ELSE ms[Index(internal, k)]]

\* UpdateEnvStateRaises without the assert on the label sets
UpdateEnvStateRaisesNoAssert(m, labelled) ==
    IF \E k \in Range(state_labels_for_agent(m)) : Index(internal_states_labels(m), k) = 0
    THEN "ValueError"
    ELSE "none"

\* which exception _update_env_state ends in, "none" when it returns
UpdateEnvStateRaises(m, labelled) ==
    IF \E k \in Range(state_labels_for_agent(m)) : Index(internal_states_labels(m), k) = 0
    THEN "ValueError"
    ELSE IF ~SortedKeysEqual(DOMAIN labelled, state_labels(m))
         THEN "AssertionError"
         ELSE "none"

\* np.array([env_state_labelled[k] for k in state_labels])
StateVector(m, labelled) == [i \in DOMAIN state_labels(m) |-> labelled[state_labels(m)[i]]]

\* _update_previous_env_state
_update_previous_env_state(es, esl, pes, pesl) ==
    IF es # None
    THEN [previous_env_state |-> es, previous_env_state_labelled |-> esl]
    ELSE [previous_env_state |-> pes, previous_env_state_labelled |-> pesl]

\* _normalize_env_state: normalization_factors is [1] * len(state_labels)
_normalize_env_state(es) == [i \in DOMAIN es |-> es[i] \div 1]

EmptyHistory == [env_states |-> <<>>, model_states |-> <<>>, env_timesteps |-> <<>>,
                 actions |-> <<>>, aggregated_costs |-> <<>>, costs |-> <<>>]

ZeroCosts == [i \in 1..nb_costs |-> 0]

NoCall == [op |-> "none", raised |-> "none", done |-> 0, action |-> neutral, obs |-> None,
           data |-> None]

\* ------------------------------------------------------------ construction
PercentageShifts == {default_percentage_shift}

Configurations ==
    {<<h, s, r>> : h \in 0..MaxHorizon, s \in 0..MaxStart, r \in 1..MaxRes}
    \cup {<<NRUN_time + 1, NRUN_time, 1>>, <<NRUN_time + 1, NRUN_time + 1, 1>>}

Init ==
    /\ \E c \in Configurations :
          /\ simulation_horizon = c[1]
          /\ time_action_start = c[2]
          /\ time_resolution = c[3]
    /\ percentage_shift \in PercentageShifts
    /\ model \in Models
    /\ cost_function \in CostFunctions
    /\ reset_same = FALSE
    /\ t = 0
    /\ jump_of = 0
    /\ cumulative_costs = ZeroCosts
    /\ model_state = None
    /\ env_state = None
    /\ env_state_labelled = <<>>
    /\ previous_env_state = None
    /\ previous_env_state_labelled = <<>>
    /\ history = EmptyHistory
    /\ current_internal_params = InitParams
    /\ model_config = 1
    /\ model_reset_kind = "none"
    /\ phase = "new"
    /\ warmup_left = 0
    /\ ret = NoCall


\* ------------------------------------------------------- update_with_action
\* percentage_shift * current_internal_params[v]
Shift(pct, p) == (pct * p) \div Scale

\* AdjustParam without the final clip
AdjustParamNoClip(params, m, pct, action, i) ==
    LET v == control_variables(m)[i]
        moved == IF action[i] = 1 THEN params[v] + Shift(pct, params[v])
                 ELSE IF action[i] = -1 THEN params[v] - Shift(pct, params[v])
                 ELSE params[v]
    IN  [params EXCEPT ![v] = moved]

\* one iteration of the loop of update_with_action, on the i-th control variable
AdjustParam(params, m, pct, action, i) ==
    LET v == control_variables(m)[i]
        rng == control_variables_ranges(m)[i]
        moved == IF action[i] = 1 THEN params[v] + Shift(pct, params[v])
                 ELSE IF action[i] = -1 THEN params[v] - Shift(pct, params[v])
                 ELSE params[v]
    IN  [params EXCEPT ![v] = Clip(moved, rng[1], rng[2])]

\* the loop of update_with_action from control variable i on: the parameters
\* it leaves and the exception it ends in (the assert of an iteration fails
\* after the earlier iterations have written their parameters)
RECURSIVE update_with_action(_, _, _, _, _)
update_with_action(params, m, pct, action, i) ==
    IF i > Len(control_variables(m))
    THEN [raised |-> "none", params |-> params]
    ELSE IF action[i] \notin {-1, 0, 1}
         THEN [raised |-> "AssertionError", params |-> params]
         ELSE update_with_action(AdjustParam(params, m, pct, action, i), m, pct, action, i + 1)

\* --------------------------------------------------------------------- step
\* JumpOf that is not clipped to the time left
JumpOfUnclipped(r, h, tt) == r

\* self.jump_of = min(self.time_resolution, self.simulation_horizon - self.t)
JumpOf(r, h, tt) == Min(r, h - tt)

\* if self.t == 70: self.model.current_internal_params['NRUN'] = 0.25
ScriptedPerturbation(params, tt) ==
    IF tt = NRUN_time THEN [params EXCEPT !["NRUN"] = NRUN_value] ELSE params

\* Accumulate that overwrites instead of adding
AccumulateOverwrite(cum, costs) == [i \in DOMAIN cum |-> costs[i]]

\* self.cumulative_costs[i] += costs[i]
Accumulate(cum, costs) == [i \in DOMAIN cum |-> cum[i] + costs[i]]

\* x / self.jump_of; with jump_of = 0 a numpy operand gives inf/nan (0 here),
\* a Python float raises ZeroDivisionError (see DivisionRaises)
PerUnit(x, jump) == IF jump = 0 THEN 0 ELSE x \div jump

\* cost_aggregated / self.jump_of raises for a Python float divided by zero
DivisionRaises(cf, jump) == cf = "float_aggregate" /\ jump = 0

\* Done with a strict comparison
DoneStrict(tt, h) == IF tt > h THEN 1 ELSE 0

\* if self.t >= self.simulation_horizon: done = 1 else: done = 0
Done(tt, h) == IF tt >= h THEN 1 ELSE 0

\* how a call of the body of step() ends for its caller: step() called by the
\* optimizer hands the outcome back; inside reset() the loop goes on, or the
\* exception leaves reset()
StepEnds(caller, action, raised, done, obs) ==
    IF caller = "step"
    THEN /\ ret' = [op |-> "step", raised |-> raised, done |-> done,
                    action |-> action, obs |-> obs, data |-> None]
         /\ UNCHANGED <<phase, warmup_left>>
    ELSE IF raised # "none"
         THEN /\ phase' = "broken"
              /\ warmup_left' = 0
              /\ ret' = [NoCall EXCEPT !.op = "reset", !.raised = raised]
         ELSE /\ phase' = "warmup"
              /\ warmup_left' = warmup_left - 1
              /\ ret' = ret

\* the body of step(action), statement by statement; a primed field is the
\* field as the later statements of the body read it
StepBody(caller, action) ==
    /\ jump_of' = JumpOf(time_resolution, simulation_horizon, t)
    /\ current_internal_params' = ScriptedPerturbation(current_internal_params, t)
    /\ model_state' = run_n_steps(model, model_state, current_internal_params')
    /\ t' = t + jump_of'
    /\ LET prev == _update_previous_env_state(env_state, env_state_labelled,
                                              previous_env_state, previous_env_state_labelled)
           \* first _update_env_state: cumulative costs not yet updated
           labelled == LabelledState(model, model_state', cumulative_costs)
           raised == UpdateEnvStateRaises(model, labelled)
       IN  IF raised # "none"
           THEN /\ previous_env_state' = prev.previous_env_state
                /\ previous_env_state_labelled' = prev.previous_env_state_labelled
                /\ env_state_labelled' = labelled
                /\ UNCHANGED <<env_state, cumulative_costs, history>>
                /\ StepEnds(caller, action, raised, 0, None)
           ELSE /\ previous_env_state' =
                      IF prev.previous_env_state = None
                      THEN StateVector(model, labelled)
                      ELSE prev.previous_env_state
                /\ previous_env_state_labelled' =
                      IF prev.previous_env_state = None
                      THEN labelled
                      ELSE prev.previous_env_state_labelled
                /\ cumulative_costs' =
                      Accumulate(cumulative_costs,
                                 [i \in 1..nb_costs |->
                                    compute_cost(model, i, previous_env_state',
                                                 StateVector(model, labelled),
                                                 action, time_resolution)])
                \* second _update_env_state: folds the updated cumulative costs
                /\ env_state_labelled' = LabelledState(model, model_state', cumulative_costs')
                /\ env_state' = StateVector(model, env_state_labelled')
                /\ IF DivisionRaises(cost_function, jump_of')
                   THEN /\ history' = [history EXCEPT
                              !.actions = @ \o Repeat(action, jump_of'),
                              !.env_states = @ \o Repeat(env_state', jump_of'),
                              !.env_timesteps = @ \o PyRange(t' - jump_of', t'),
                              !.model_states = Append(@, model_state')]
                        /\ StepEnds(caller, action, "ZeroDivisionError", 0, None)
                   ELSE /\ history' = [history EXCEPT
                              !.actions = @ \o Repeat(action, jump_of'),
                              !.env_states = @ \o Repeat(env_state', jump_of'),
                              !.env_timesteps = @ \o PyRange(t' - jump_of', t'),
                              !.model_states = Append(@, model_state'),
                              !.aggregated_costs = @ \o
                                  Repeat(PerUnit(compute_aggregated_cost(model,
                                            previous_env_state', env_state', action,
                                            jump_of'), jump_of'), jump_of'),
                              !.costs = @ \o
                                  Repeat([i \in 1..nb_costs |->
                                            PerUnit(compute_cost(model, i,
                                               previous_env_state', env_state', action,
                                               jump_of'), jump_of')], jump_of')]
                        /\ StepEnds(caller, action, "none",
                                    Done(t', simulation_horizon),
                                    _normalize_env_state(env_state'))
    /\ UNCHANGED <<cfgvars, reset_same, model_config, model_reset_kind>>

\* env.step(action), called by the optimizer; at most MaxAgentSteps calls per
\* episode (counted by t when reset() failed before recording a model state)
Step ==
    /\ phase \in {"ready", "broken"}
    /\ IF history.model_states = <<>>
       THEN t < MaxAgentSteps
       ELSE Len(history.model_states) < 1 + time_action_start + MaxAgentSteps
    /\ \E action \in Actions : StepBody("step", action)

\* -------------------------------------------------------------------- reset
\* InitialHistory that does not record the initial environment state
InitialHistoryNoState(es, ms, tt) ==
    [EmptyHistory EXCEPT !.model_states = Append(@, ms),
                         !.env_timesteps = Append(@, tt)]

\* history after the three appends of reset()
InitialHistory(es, ms, tt) ==
    [EmptyHistory EXCEPT !.env_states = Append(@, es),
                         !.model_states = Append(@, ms),
                         !.env_timesteps = Append(@, tt)]

\* WarmupIterations with one iteration too many
WarmupIterationsPlusOne(s) == s + 1

\* number of iterations of `for _ in range(self.time_action_start)`
WarmupIterations(s) == s

\* ResetKind that ignores the flag
ResetKindIgnoresFlag(flag) == "reset"

\* which method of the model reset() calls: if self.reset_same: ... else: ...
ResetKind(flag) == IF flag THEN "reset_same_model" ELSE "reset"

\* InitialTime that keeps the time counter of the previous episode
InitialTimeKept(tt) == tt

\* self.t = 0
InitialTime(tt) == 0

\* reset() up to the warm-up loop: clears the episode, re-initializes the
\* model, derives the initial state and records it
ResetBegin ==
    /\ phase # "warmup"
    /\ t' = InitialTime(t)
    /\ cumulative_costs' = ZeroCosts
    /\ model_reset_kind' = ResetKind(reset_same)
    /\ IF model_reset_kind' = "reset_same_model"
       THEN model_config' = model_config
       ELSE model_config' \in ModelConfigs
    /\ reset_same' = FALSE
    /\ current_internal_params' = InitParams
    /\ model_state' = InitModelState(model_config')
    /\ LET prev == _update_previous_env_state(env_state, env_state_labelled,
                                              previous_env_state, previous_env_state_labelled)
           labelled == LabelledState(model, model_state', ZeroCosts)
           raised == UpdateEnvStateRaises(model, labelled)
       IN  /\ env_state_labelled' = labelled
           /\ IF raised # "none"
              THEN /\ env_state' = env_state
                   /\ previous_env_state' = prev.previous_env_state
                   /\ previous_env_state_labelled' = prev.previous_env_state_labelled
                   /\ history' = EmptyHistory
                   /\ phase' = "broken"
                   /\ warmup_left' = 0
                   /\ ret' = [NoCall EXCEPT !.op = "reset", !.raised = raised]
              ELSE /\ env_state' = StateVector(model, labelled)
                   /\ previous_env_state' =
                         IF prev.previous_env_state = None
                         THEN env_state'
                         ELSE prev.previous_env_state
                   /\ previous_env_state_labelled' =
                         IF prev.previous_env_state = None
                         THEN labelled
                         ELSE prev.previous_env_state_labelled
                   /\ history' = InitialHistory(env_state', model_state', t')
                   /\ phase' = "warmup"
                   /\ warmup_left' = WarmupIterations(time_action_start)
                   /\ ret' = NoCall
    /\ UNCHANGED <<cfgvars, jump_of>>

\* one iteration of the warm-up loop: self.step(action=[0] * self.dim_action)
WarmupStep ==
    /\ phase = "warmup"
    /\ warmup_left > 0
    /\ StepBody("reset", neutral)

\* return self._normalize_env_state(self.env_state)
ResetReturn ==
    /\ phase = "warmup"
    /\ warmup_left = 0
    /\ phase' = "ready"
    /\ ret' = [NoCall EXCEPT !.op = "reset", !.obs = _normalize_env_state(env_state)]
    /\ UNCHANGED <<cfgvars, envvars, modelvars, warmup_left>>

\* env.reset_same_model()
ResetSameModel ==
    /\ phase # "warmup"
    /\ reset_same' = TRUE
    /\ ret' = [NoCall EXCEPT !.op = "reset_same_model"]
    /\ UNCHANGED <<cfgvars, t, jump_of, cumulative_costs, model_state, env_state,
                   env_state_labelled, previous_env_state, previous_env_state_labelled,
                   history, modelvars, phase, warmup_left>>

\* env.update_with_action(action), called directly
UpdateWithAction ==
    /\ phase = "ready"
    /\ \E action \in UpdateActions :
          LET u == update_with_action(current_internal_params, model, percentage_shift,
                                      action, 1)
          IN  /\ current_internal_params' = u.params
              /\ ret' = [NoCall EXCEPT !.op = "update_with_action", !.raised = u.raised,
                                       !.action = action]
    /\ UNCHANGED <<cfgvars, envvars, model_config, model_reset_kind, phase, warmup_left>>

\* ----------------------------------------------------------- sample_action
\* np.random.choice([-1, 0, 1], size=n): the constant vectors stand for the
\* vectors it can draw
sample_action(n) == {[i \in 1..n |-> v] : v \in {-1, 0, 1}}

\* env.sample_action(), called by the optimizer to choose the action of the
\* next step of a running episode
SampleAction ==
    /\ phase = "ready"
    /\ \E a \in sample_action(dim_action) :
          ret' = [NoCall EXCEPT !.op = "sample_action", !.action = a]
    /\ UNCHANGED <<cfgvars, envvars, modelvars, phase, warmup_left>>

\* ----------------------------------------------------------------- get_data
\* column idx of a list of rows: np.array(rows)[:, idx]
Column(rows, idx) == [i \in DOMAIN rows |-> rows[i][idx]]

\* betas = [0, 0.25, 0.5, 0.75, 1]
betas == <<0, 25, 50, 75, 100>>

\* world_states_labels
world_states_labels == <<"P", "POLR", "CI", "QL", "NR">>

\* cost_function.compute_aggregated_cost(costs, beta): one value per row
aggregate_rows(costs, beta) ==
    [i \in DOMAIN costs |-> (beta * costs[i][1] + (Scale - beta) * costs[i][2]) \div Scale]

\* the labels get_data() looks up in state_labels
PlottedLabels(m) ==
    Range(control_variables(m)) \cup Range(stocks(m)) \cup Range(rates(m)) \cup {"DR", "QL"}

\* the exception get_data() ends in, "none" when it returns: no history
\* before the first reset(); np.concatenate of the (1, 2) zero row with an
\* empty costs list; a plotted label that is not a state label; a world
\* label that is not an internal label
GetDataRaises(hasHistory, h, m) ==
    IF ~hasHistory THEN "AttributeError"
    ELSE IF h.costs = <<>> THEN "ValueError"
    ELSE IF \E k \in PlottedLabels(m) : Index(state_labels(m), k) = 0 THEN "ValueError"
    ELSE IF \E k \in Range(world_states_labels) : Index(internal_states_labels(m), k) = 0
         THEN "ValueError"
    ELSE "none"

\* the bundle get_data() returns
GetDataBundle(h, m) ==
    [time |-> [i \in DOMAIN h.env_timesteps |-> h.env_timesteps[i] + year_min],
     history |-> h,
     costs |-> <<ZeroCosts>> \o h.costs,
     aggregated |-> [b \in DOMAIN betas |->
                        aggregate_rows(<<ZeroCosts>> \o h.costs, betas[b])],
     control_variables |-> [k \in DOMAIN control_variables(m) |->
                              Column(h.env_states,
                                     Index(state_labels(m), control_variables(m)[k]))],
     stocks |-> [k \in DOMAIN stocks(m) |->
                   Column(h.env_states, Index(state_labels(m), stocks(m)[k]))],
     rates |-> [k \in DOMAIN rates(m) |->
                  Column(h.env_states, Index(state_labels(m), rates(m)[k]))],
     death_rate |-> Column(h.env_states, Index(state_labels(m), "DR")),
     qol |-> Column(h.env_states, Index(state_labels(m), "QL")),
     world_states |-> [k \in DOMAIN world_states_labels |->
                         Column(h.model_states,
                                Index(internal_states_labels(m), world_states_labels[k]))]]

\* GetDataHistory that pads the stored costs in place
GetDataHistoryPadsCosts(h) == [h EXCEPT !.costs = <<ZeroCosts>> \o @]

\* self.history after get_data(): the zero row is concatenated into a new
\* array, the stored lists are only read
GetDataHistory(h) == h

\* env.get_data()
GetData ==
    /\ phase # "warmup"
    /\ LET raised == GetDataRaises(phase # "new", history, model)
       IN  IF raised # "none"
           THEN /\ ret' = [NoCall EXCEPT !.op = "get_data", !.raised = raised]
                /\ history' = history
           ELSE /\ ret' = [NoCall EXCEPT !.op = "get_data",
                                         !.data = GetDataBundle(history, model)]
                /\ history' = GetDataHistory(history)
    /\ UNCHANGED <<cfgvars, reset_same, t, jump_of, cumulative_costs, model_state,
                   env_state, env_state_labelled, previous_env_state,
                   previous_env_state_labelled, modelvars, phase, warmup_left>>

\* ---------------------------------------------------------------- get_model
\* list_models
list_models == <<"prague_seirah", "world2">>

\* identifiers the factory is called with
ModelIds == {"prague_seirah", "world2", "World2", "sir"}

\* get_model that falls back to World2 for an unknown identifier
get_model_default_world2(model_id) ==
    IF model_id = "prague_seirah"
    THEN [raised |-> "none", built |-> "PragueOdeSeirahModel"]
    ELSE [raised |-> "none", built |-> "World2"]

\* get_model(model_id, params): the exception it ends in and the class of the
\* model it builds ("none" when it builds none)
get_model(model_id) ==
    IF model_id \notin Range(list_models)
    THEN [raised |-> "AssertionError", built |-> "none"]
    ELSE IF model_id = "prague_seirah"
         THEN [raised |-> "none", built |-> "PragueOdeSeirahModel"]
         ELSE IF model_id = "world2"
              THEN [raised |-> "none", built |-> "World2"]
              ELSE [raised |-> "NotImplementedError", built |-> "none"]

\* a call of the factory, before the environment is used
GetModel ==
    /\ phase = "new"
    /\ \E model_id \in ModelIds :
          ret' = [NoCall EXCEPT !.op = "get_model",
                                !.raised = get_model(model_id).raised,
                                !.data = [model_id |-> model_id,
                                          built |-> get_model(model_id).built]]
    /\ UNCHANGED <<cfgvars, envvars, modelvars, phase, warmup_left>>

Next ==
    \/ ResetBegin
    \/ WarmupStep
    \/ ResetReturn
    \/ Step
    \/ ResetSameModel
    \/ UpdateWithAction
    \/ SampleAction
    \/ GetData
    \/ GetModel

Spec == Init /\ [][Next]_vars


\* =================================================================== claims
\* a call of step() has just returned normally to the optimizer
StepReturned == ret.op = "step" /\ ret.raised = "none"

\* number of step() calls the optimizer has made since the last reset()
\* (model_states holds the initial state and one entry per model advance)
AgentSteps == Len(history.model_states) - 1 - time_action_start

\* C1: every step with a valid action that returns gives done = 1 exactly
\* when the time counter after the step has reached simulation_horizon.
C1_DoneIffHorizon ==
    (StepReturned /\ ValidAction(ret.action))
        => (ret.done = 1 <=> t >= simulation_horizon)

C1_Witness ==
    /\ StepReturned /\ ValidAction(ret.action) /\ ret.action # neutral
    /\ phase = "ready"
    /\ ret.done = 1
    /\ simulation_horizon > time_action_start
    /\ time_action_start > 0

\* C2: after a reset() that returned, step() with a valid action never
\* raises, also when t has already reached simulation_horizon.
C2_StepNeverRaises ==
    (phase = "ready" /\ ret.op = "step" /\ ValidAction(ret.action))
        => ret.raised = "none"

\* C3: step() with an action component outside {-1,0,1} ends in a validation
\* error and leaves the model state, the model parameters, t, the cumulative
\* costs and the history as they were.
C3_InvalidActionRejected ==
    [][(phase = "ready" /\ ret'.op = "step" /\ ~ValidAction(ret'.action))
          => /\ ret'.raised = "AssertionError"
             /\ UNCHANGED <<model_state, current_internal_params, t,
                            cumulative_costs, history>>]_vars

\* C4: a step() that returns has applied its action to the model: every
\* control parameter is what update_with_action makes of it (+1 raises it by
\* percentage_shift of itself, -1 lowers it, within its range).
C4_StepAppliesAction ==
    [][(phase = "ready" /\ ret'.op = "step" /\ ret'.raised = "none"
        /\ ValidAction(ret'.action))
          => \A i \in DOMAIN control_variables(model) :
                current_internal_params'[control_variables(model)[i]]
                  = AdjustParam(current_internal_params, model, percentage_shift,
                                ret'.action, i)[control_variables(model)[i]]]_vars

\* C5: when reset() returns, t = time_action_start.
C5_ResetTime ==
    (ret.op = "reset" /\ ret.raised = "none") => t = time_action_start


\* a step() call has just returned done = 1: the episode is complete
EpisodeCompleted == StepReturned /\ ret.done = 1

\* C6: after a completed episode, env_states, env_timesteps and actions have
\* the same length.
C6_HistoryLengthsEqual ==
    EpisodeCompleted
        => /\ Len(history.env_states) = Len(history.env_timesteps)
           /\ Len(history.env_timesteps) = Len(history.actions)

\* C6 (amended): after a completed episode, env_states and env_timesteps have
\* the same length, one more than actions (reset records the initial state
\* and its timestamp, and no action).
C6_HistoryLengthsAmended ==
    EpisodeCompleted
        => /\ Len(history.env_states) = Len(history.env_timesteps)
           /\ Len(history.env_timesteps) = Len(history.actions) + 1

C6_Witness ==
    /\ EpisodeCompleted
    /\ phase = "ready"
    /\ Len(history.actions) >= 2
    /\ time_resolution > 1

\* C7: after a completed episode, env_timesteps starts at 0 and is strictly
\* increasing.
C7_TimestepsStrictlyIncreasing ==
    EpisodeCompleted
        => /\ history.env_timesteps[1] = 0
           /\ \A i, j \in DOMAIN history.env_timesteps :
                 i < j => history.env_timesteps[i] < history.env_timesteps[j]

\* the transition is one execution of the body of step() that got past its
\* state update (a warm-up iteration of reset() or a call by the optimizer)
StepTaken ==
    /\ Len(history'.model_states) = Len(history.model_states) + 1
    /\ phase = "warmup" \/ ret'.op = "step"

\* the action of the step taken
ActionTaken == IF phase = "warmup" THEN neutral ELSE ret'.action

\* the transition is the beginning of an episode
EpisodeStarted == phase # "warmup" /\ phase' = "warmup"

\* C8: cumulative costs are zero when an episode starts; every step, warm-up
\* steps included, adds to each cumulative cost the elementary cost of the
\* transition from the state before the step to the state after it, and the
\* cumulative-cost fields of the new state vector, and of the vector the step
\* returns, hold the updated accumulators.
C8_MonotoneAccumulation ==
    [][/\ EpisodeStarted => cumulative_costs' = ZeroCosts
       /\ StepTaken =>
            LET state == StateVector(model,
                                     LabelledState(model, model_state', cumulative_costs))
            IN  \A i \in 1..nb_costs :
                  /\ cumulative_costs'[i] = cumulative_costs[i]
                        + compute_cost(model, i, env_state, state, ActionTaken,
                                       time_resolution)
                  /\ env_state'[label_to_id(model, CumLabel(i - 1))] = cumulative_costs'[i]
                  /\ ret'.op = "step" /\ ret'.raised = "none"
                        => ret'.obs[label_to_id(model, CumLabel(i - 1))] = cumulative_costs'[i]
      ]_vars

C8_Witness ==
    /\ StepReturned
    /\ time_action_start > 0
    /\ AgentSteps = 2
    /\ \A i \in 1..nb_costs :
          /\ cumulative_costs[i] > 0
          /\ ret.obs[label_to_id(model, CumLabel(i - 1))] = cumulative_costs[i]

\* C9: with time_resolution = 1 and time_action_start <= simulation_horizon,
\* reset() returns after exactly time_action_start model advances, and of the
\* step calls that follow the (simulation_horizon - time_action_start)-th
\* returns done = 1 and every earlier one returns done = 0.
C9_WarmupThenHorizon ==
    (time_resolution = 1 /\ time_action_start <= simulation_horizon)
        => /\ (ret.op = "reset" /\ ret.raised = "none")
                 => Len(history.model_states) - 1 = time_action_start
           /\ (phase = "ready" /\ ret.op = "step"
               /\ AgentSteps <= simulation_horizon - time_action_start)
                 => /\ ret.raised = "none"
                    /\ ret.done = (IF AgentSteps = simulation_horizon - time_action_start
                                   THEN 1 ELSE 0)

C9_Witness ==
    /\ time_resolution = 1
    /\ time_action_start = NRUN_time
    /\ simulation_horizon = NRUN_time + 1
    /\ StepReturned
    /\ AgentSteps = simulation_horizon - time_action_start
    /\ ret.done = 1

\* C10: after every reset() and every step() that returns, the keys of the
\* labelled state are exactly the declared state_labels (none missing, none
\* twice), every model label holds the model's value for it, every cumulative
\* label holds its accumulator, and the state vector lists the labelled values
\* in state_labels order; a model whose labels do not fit never gets a reset()
\* or step() to return.
C10_LabelSet ==
    (ret.op \in {"reset", "step"} /\ ret.raised = "none")
        => /\ DOMAIN env_state_labelled = Range(state_labels(model))
           /\ Cardinality(DOMAIN env_state_labelled) = Len(state_labels(model))
           /\ \A k \in Range(state_labels_for_agent(model)) :
                 /\ k \in Range(internal_states_labels(model))
                 /\ env_state_labelled[k]
                       = model_state[Index(internal_states_labels(model), k)]
           /\ \A i \in 1..nb_costs :
                 env_state_labelled[CumLabel(i - 1)] = cumulative_costs[i]
           /\ Len(env_state) = Len(state_labels(model))
           /\ \A i \in DOMAIN env_state :
                 env_state[i] = env_state_labelled[state_labels(model)[i]]
           /\ ret.obs = env_state

C10_Witness ==
    /\ StepReturned
    /\ model = "world2"
    /\ cumulative_costs # ZeroCosts
    /\ DOMAIN env_state_labelled = Range(state_labels(model))

\* the transition is a call of reset(), up to its warm-up loop or to the
\* exception it ends in
ResetCalled == phase # "warmup" /\ (phase' = "warmup" \/ ret'.op = "reset")

\* the transition is the return of reset()
ResetReturned == phase = "warmup" /\ phase' = "ready"

\* C11: reset() re-initializes the model through reset_same_model() exactly
\* when the flag is set, keeping the configuration of the previous episode,
\* and through reset() otherwise, and leaves the flag cleared; only
\* reset_same_model() sets the flag, and no step, warm-up step or other call
\* changes it.
C11_OneShotFlag ==
    [][/\ ResetCalled =>
            /\ model_reset_kind' = (IF reset_same THEN "reset_same_model" ELSE "reset")
            /\ reset_same => model_config' = model_config
            /\ reset_same' = FALSE
       /\ ret'.op = "reset_same_model" => reset_same' = TRUE
       /\ (~ResetCalled /\ ret'.op # "reset_same_model") => reset_same' = reset_same
      ]_vars

C11_Witness ==
    /\ ret.op = "reset"
    /\ ret.raised = "none"
    /\ model_reset_kind = "reset_same_model"
    /\ reset_same = FALSE
    /\ Len(history.model_states) = 1 + time_action_start

\* lengths of the history sequences, in the order env_states, env_timesteps,
\* model_states, actions, aggregated_costs, costs
HistoryLengths(h) ==
    <<Len(h.env_states), Len(h.env_timesteps), Len(h.model_states),
      Len(h.actions), Len(h.aggregated_costs), Len(h.costs)>>

\* the time counter reset() returns with
TimeAfterWarmup == Min(time_action_start * time_resolution, simulation_horizon)

\* C12: whatever the previous episode was, reset() starts from t = 0, zero
\* cumulative costs and a history holding only the initial state, and returns
\* with a time counter and history lengths that depend on the configuration
\* alone, hence equal to those of the first reset().
C12_ResetDiscardsEpisode ==
    [][/\ EpisodeStarted =>
            /\ t' = 0
            /\ cumulative_costs' = ZeroCosts
            /\ HistoryLengths(history') = <<1, 1, 1, 0, 0, 0>>
       /\ ResetReturned =>
            /\ t' = TimeAfterWarmup
            /\ HistoryLengths(history')
                  = <<TimeAfterWarmup + 1, TimeAfterWarmup + 1, 1 + time_action_start,
                      TimeAfterWarmup, TimeAfterWarmup, TimeAfterWarmup>>
      ]_vars

\* reset() has returned after an episode whose steps accrued cost
C12_Witness ==
    /\ ret.op = "reset"
    /\ ret.raised = "none"
    /\ time_action_start = 0
    /\ t = 0
    /\ previous_env_state # env_state
    /\ previous_env_state[label_to_id(model, CumLabel(0))] # 0

\* C13: the action dimension, the length of the vector sample_action()
\* returns and the length of the neutral action replayed during warm-up all
\* equal the number of control variables the model declares.
C13_ActionDimFromModel ==
    /\ ret.op = "sample_action"
          => /\ dim_action = Len(control_variables(model))
             /\ Len(ret.action) = Len(control_variables(model))
    /\ (phase = "warmup" /\ history.actions # <<>>)
          => \A i \in DOMAIN history.actions :
                Len(history.actions[i]) = Len(control_variables(model))

\* C14: get_data() leaves the time counter, the cumulative costs, the model
\* and the history unchanged, the bundle it returns is determined by the
\* history, and a second call right after a first one returns the same bundle.
C14_GetDataReadOnly ==
    [][ret'.op = "get_data" =>
          /\ UNCHANGED <<t, jump_of, cumulative_costs, model_state, env_state,
                         env_state_labelled, previous_env_state,
                         previous_env_state_labelled, history, reset_same>>
          /\ UNCHANGED <<modelvars, cfgvars>>
          /\ ret'.raised = "none" => ret'.data = GetDataBundle(history, model)
          /\ ret.op = "get_data" => ret'.data = ret.data /\ ret'.raised = ret.raised
      ]_vars

\* get_data() has returned the bundle of an episode with agent steps
C14_Witness ==
    /\ ret.op = "get_data"
    /\ ret.raised = "none"
    /\ AgentSteps > 0
    /\ Len(ret.data.costs) = Len(history.costs) + 1
    /\ Len(ret.data.time) = Len(ret.data.costs)
    /\ ret.data.qol # ret.data.death_rate

\* C15: get_model fails with AssertionError and builds no model for every
\* identifier outside the registered list, and builds the Prague model for
\* 'prague_seirah' and the World2 model for 'world2'.
C15_GetModelRegistered ==
    ret.op = "get_model" =>
        IF ret.data.model_id \in {"prague_seirah", "world2"}
        THEN /\ ret.raised = "none"
             /\ ret.data.built = (IF ret.data.model_id = "prague_seirah"
                                  THEN "PragueOdeSeirahModel" ELSE "World2")
        ELSE /\ ret.raised = "AssertionError"
             /\ ret.data.built = "none"

\* the factory has rejected an identifier that differs from a registered one
\* by case only
C15_Witness ==
    /\ ret.op = "get_model"
    /\ ret.data.model_id = "World2"
    /\ ret.raised = "AssertionError"
    /\ ret.data.built = "none"

\* C16: after the state update reset() performs before warm-up, the previous
\* state equals the current state, as vector and as labelled mapping, in the
\* first episode and in every later one.
C16_FirstUpdatePreviousEqualsCurrent ==
    [][EpisodeStarted =>
          /\ previous_env_state' = env_state'
          /\ previous_env_state_labelled' = env_state_labelled'
      ]_vars

\* C17: the model's parameters change only when the model is reset, when
\* update_with_action is called, or by a step applying its action through
\* update_with_action; a step with the all-zero action leaves them unchanged.
C17_ParamsOnlyThroughActionPathway ==
    [][/\ (StepTaken /\ ActionTaken = neutral)
            => current_internal_params' = current_internal_params
       /\ current_internal_params' # current_internal_params
            => \/ ResetCalled
               \/ ret'.op = "update_with_action"
               \/ /\ StepTaken
                  /\ current_internal_params'
                        = update_with_action(current_internal_params, model,
                                             percentage_shift, ActionTaken, 1).params
      ]_vars

\* C18: update_with_action with a valid action returns normally, sets every
\* control parameter to its value moved by action * percentage_shift of
\* itself and clipped to its declared range, so that it lies within the
\* range, and leaves every other parameter unchanged.
C18_UpdateWithActionClips ==
    [][(ret'.op = "update_with_action" /\ ValidAction(ret'.action)) =>
          /\ ret'.raised = "none"
          /\ \A i \in DOMAIN control_variables(model) :
                LET v == control_variables(model)[i]
                    p == current_internal_params[v]
                    lo == control_variables_ranges(model)[i][1]
                    hi == control_variables_ranges(model)[i][2]
                IN  /\ current_internal_params'[v]
                          = Clip(p + ret'.action[i] * Shift(percentage_shift, p), lo, hi)
                    /\ lo <= current_internal_params'[v]
                    /\ current_internal_params'[v] <= hi
          /\ \A v \in ParamNames \ Range(control_variables(model)) :
                current_internal_params'[v] = current_internal_params[v]
      ]_vars

\* update_with_action has raised one control parameter to the top of its
\* range and lowered another to the bottom of its range
C18_Witness ==
    /\ ret.op = "update_with_action"
    /\ ret.raised = "none"
    /\ ret.action = <<1, -1, 0, 0, 1>>
    /\ current_internal_params["BRN"] = control_variables_ranges(model)[1][2]
    /\ current_internal_params["DRN"] = control_variables_ranges(model)[2][1]

\* the transition is one execution of the body of step(), by the warm-up
\* loop or by the optimizer
StepCalled == (phase = "warmup" /\ warmup_left > 0) \/ ret'.op = "step"

====
